---------------------------- MODULE Spec2Model ----------------------------
(***************************************************************************)
(* Server lifecycle of the pod identity webhook: main() of src/main.go     *)
(* (certificate source selection, the per-handshake certificate hook, the  *)
(* serve call) and the shutdown goroutine of                               *)
(* src/pkg/handler/shutdown.go (ShutdownOnTerm).                           *)
(*                                                                         *)
(* Two goroutines are modelled, main and the coordinator, interleaved      *)
(* step by step with no assumption on their relative speed.  The http      *)
(* server, the signal package, the certificate manager and the self-signed *)
(* generator are collaborators: each call into them is one step whose      *)
(* result is drawn from the results the call site distinguishes.           *)
(* Time is counted in seconds from the creation of the shutdown context.   *)
(***************************************************************************)
EXTENDS Integers, Sequences, FiniteSets

\* ------------------------------------------------------------- bounds
MaxSignals == 2      \* termination signals the environment delivers
MaxConns == 2        \* connections open at the same time
MaxCert == 2         \* certificates the cluster-managed source issues

\* ------------------------------------------------- program constants
DrainDeadline == 10  \* main.go:168  time.Duration(10)*time.Second

\* The clock of the shutdown context advances in steps of half the deadline.
TickStep == DrainDeadline \div 2

Signals == {"interrupt", "terminate"}   \* os.Interrupt, syscall.SIGTERM
Modes == {"InCluster", "OutOfCluster"}  \* flag --in-cluster

\* Errors a call site tells apart.
NoErr == "nil"
ErrServerClosed == "ErrServerClosed"
DeadlineExceeded == "DeadlineExceeded"
OtherErr == "error"
ErrNoCert == "no serving certificate available for the webhook, is the CSR approved?"

\* Process status.
Running == "running"
Exit0 == "exit 0"
Exit255 == "exit 255"        \* klog.Fatalf -> os.Exit(255), deferred calls skipped
Killed == "killed by signal" \* default disposition of an unhandled signal

\* Certificates.  Nil is the nil *tls.Certificate; the cluster-managed source
\* hands out numbered versions, the self-signed generator its one certificate.
Nil == [src |-> "nil", ver |-> 0]
ClusterCert(v) == [src |-> "cluster", ver |-> v]
SelfSignedCert == [src |-> "self-signed", ver |-> 1]

NoHandshake == [cur |-> Nil, res |-> [cert |-> Nil, err |-> "no handshake"]]

VARIABLES
    mode,          \* DeploymentMode, fixed at startup
    mainPc,        \* position of main()
    coordPc,       \* position of the goroutine started by ShutdownOnTerm
    exit,          \* process status
    fatal,         \* message of the klog.Fatalf that ended the process, or "none"
    registered,    \* signals passed to signal.Notify so far
    delivered,     \* termination signals delivered to the process so far
    received,      \* the signal the goroutine took from its channel, or "none"
    lostArmed,     \* a signal was discarded after ShutdownOnTerm had returned
                   \* and before the goroutine had taken any
    lostListening, \* the same, with the server Listening at that moment
    lateSignals,   \* signals delivered after the goroutine had taken one
    lnState,       \* the server's listener: "none", "open", "closed"
    inShutdown,    \* the server's shutting-down flag (set by Shutdown and Close)
    active,        \* open connections whose request will finish
    hung,          \* open connections whose request never finishes
    hungAtSignal,  \* hung connections open when the coordinator took the signal
    shutdownCalls, \* invocations of server.Shutdown
    shutdownErr,   \* result of server.Shutdown, "pending" until it returns
    closeCalls,    \* invocations of server.Close
    closeErr,      \* result of server.Close, "pending" until it returns
    ctxTimeout,    \* timeout of the shutdown context, -1 before it exists
    elapsed,       \* seconds since the shutdown context was created
    certCur,       \* what certManager.Current() returns: Nil or a certificate
    certIssued,    \* certificates issued so far by the cluster-managed source
    hookInstalled, \* tlsConfig.GetCertificate is set
    startCalls,    \* certManager.Start() calls
    stopCalls,     \* certManager.Stop() calls
    publishCalls,  \* manager.GenerateConfig() calls
    descriptor,    \* the webhook config file has been written
    certSource,    \* the certificate source constructed: "none", "cluster",
                   \* "self-signed"
    failed,        \* the startup step that returned an error, or "none"
    hsPrev,        \* the handshake before the last one, or NoHandshake
    hsLast         \* the last handshake: the source's certificate at that
                   \* moment and what the hook returned, or NoHandshake

vars == <<mode, mainPc, coordPc, exit, fatal, registered, delivered, received,
          lostArmed, lostListening, lnState,
          inShutdown, active, hung, hungAtSignal, shutdownCalls, shutdownErr,
          closeCalls, closeErr, ctxTimeout, elapsed, certCur, certIssued,
          hookInstalled, startCalls, stopCalls, publishCalls, descriptor,
          hsPrev, hsLast, lateSignals, certSource, failed>>

procVars == <<mainPc, coordPc, exit, fatal>>
sigVars == <<registered, delivered, received, lostArmed, lostListening,
             lateSignals>>
srvVars == <<lnState, inShutdown>>
connVars == <<active, hung>>
coordVars == <<hungAtSignal, shutdownCalls, shutdownErr, closeCalls, closeErr,
               ctxTimeout, elapsed>>
certVars == <<certCur, certIssued, startCalls, stopCalls>>
cfgVars == <<mode, hookInstalled, publishCalls, descriptor, certSource>>
hsLog == <<hsPrev, hsLast>>

Init ==
    /\ mode \in Modes
    /\ mainPc = "buildConfig"
    /\ coordPc = "none"
    /\ exit = Running
    /\ fatal = "none"
    /\ registered = {}
    /\ delivered = 0
    /\ received = "none"
    /\ lostArmed = FALSE
    /\ lostListening = FALSE
    /\ lnState = "none"
    /\ inShutdown = FALSE
    /\ active = 0
    /\ hung = 0
    /\ hungAtSignal = 0
    /\ shutdownCalls = 0
    /\ shutdownErr = "pending"
    /\ closeCalls = 0
    /\ closeErr = "pending"
    /\ ctxTimeout = -1
    /\ elapsed = 0
    /\ certCur = Nil
    /\ certIssued = 0
    /\ hookInstalled = FALSE
    /\ startCalls = 0
    /\ stopCalls = 0
    /\ publishCalls = 0
    /\ descriptor = FALSE
    /\ hsPrev = NoHandshake
    /\ hsLast = NoHandshake
    /\ lateSignals = 0
    /\ certSource = "none"
    /\ failed = "none"

\* klog.Fatalf(msg): the process exits with status 255 at once; no deferred
\* call runs and every goroutine and connection dies with the process.
Fatalf(msg) ==
    /\ exit' = Exit255
    /\ fatal' = msg

\* ---------------------------------------------------------------- main()

\* mutant: an error of a startup step is not checked
StartupFatal_Never(ok) == FALSE

\* main.go:74,79,130,153,157  if err != nil { klog.Fatalf(...) }
StartupFatal(ok) == ~ok

\* main.go:73-76  clientcmd.BuildConfigFromFlags
MainBuildConfig ==
    /\ exit = Running /\ mainPc = "buildConfig"
    /\ \E ok \in BOOLEAN :
         /\ failed' = IF ok THEN failed ELSE "config"
         /\ IF StartupFatal(ok)
              THEN /\ Fatalf("Error creating config")
                   /\ UNCHANGED mainPc
              ELSE /\ mainPc' = "clientset"
                   /\ UNCHANGED <<exit, fatal>>
    /\ UNCHANGED <<coordPc, sigVars, srvVars, connVars, coordVars, certVars,
                   cfgVars, hsLog>>

\* main.go:78-81  kubernetes.NewForConfig
MainClientset ==
    /\ exit = Running /\ mainPc = "clientset"
    /\ \E ok \in BOOLEAN :
         /\ failed' = IF ok THEN failed ELSE "clientset"
         /\ IF StartupFatal(ok)
              THEN /\ Fatalf("Error creating clientset")
                   /\ UNCHANGED mainPc
              ELSE /\ mainPc' = "certSource"
                   /\ UNCHANGED <<exit, fatal>>
    /\ UNCHANGED <<coordPc, sigVars, srvVars, connVars, coordVars, certVars,
                   cfgVars, hsLog>>

\* mutant: the in-cluster branch is taken whatever the flag says
UsesClusterSource_Always(m) == TRUE

\* main.go:106  if *inCluster
UsesClusterSource(m) == m = "InCluster"

\* main.go:106-132  in-cluster branch: cert.NewServerCertificateManager
MainNewCertManager ==
    /\ exit = Running /\ mainPc = "certSource" /\ UsesClusterSource(mode)
    /\ \E ok \in BOOLEAN :
         /\ failed' = IF ok THEN failed ELSE "certificate manager"
         /\ certSource' = IF ok THEN "cluster" ELSE certSource
         /\ IF StartupFatal(ok)
              THEN /\ Fatalf("failed to initialize certificate manager")
                   /\ UNCHANGED mainPc
              ELSE /\ mainPc' = "certStart"
                   /\ UNCHANGED <<exit, fatal>>
    /\ UNCHANGED <<coordPc, sigVars, srvVars, connVars, coordVars, certVars,
                   mode, hookInstalled, publishCalls, descriptor, hsLog>>

\* main.go:133-142  certManager.Start(), defer certManager.Stop(), hook installed
MainCertStart ==
    /\ exit = Running /\ mainPc = "certStart"
    /\ startCalls' = startCalls + 1
    /\ hookInstalled' = TRUE
    /\ mainPc' = "createServer"
    /\ UNCHANGED <<coordPc, exit, fatal, sigVars, srvVars, connVars, coordVars,
                   certCur, certIssued, stopCalls, mode, publishCalls,
                   descriptor, certSource, failed, hsLog>>

\* main.go:143-151  out-of-cluster branch: self-signed generator, its hook, and
\* url.Parse of "https://localhost:<port>", which cannot fail for an integer port
MainSelfSigned ==
    /\ exit = Running /\ mainPc = "certSource" /\ ~UsesClusterSource(mode)
    /\ certSource' = "self-signed"
    /\ hookInstalled' = TRUE
    /\ mainPc' = "genConfig"
    /\ UNCHANGED <<coordPc, exit, fatal, sigVars, srvVars, connVars, coordVars,
                   certVars, mode, publishCalls, descriptor, failed, hsLog>>

\* main.go:152-155  manager.GenerateConfig()
MainGenerateConfig ==
    /\ exit = Running /\ mainPc = "genConfig"
    /\ publishCalls' = publishCalls + 1
    /\ \E ok \in BOOLEAN :
         /\ failed' = IF ok THEN failed ELSE "generate config"
         /\ IF StartupFatal(ok)
              THEN /\ Fatalf("Error creating webhook config")
                   /\ UNCHANGED mainPc
              ELSE /\ mainPc' = "writeFile"
                   /\ UNCHANGED <<exit, fatal>>
    /\ UNCHANGED <<coordPc, sigVars, srvVars, connVars, coordVars, certVars,
                   mode, hookInstalled, descriptor, certSource, hsLog>>

\* mutant: the error of ioutil.WriteFile is not checked
WriteFatal_Never(ok) == FALSE

\* main.go:157  if err != nil { klog.Fatalf("Error writing webhook config" ...) }
WriteFatal(ok) == ~ok

\* main.go:156-159  ioutil.WriteFile(*webhookConfig, ...)
MainWriteFile ==
    /\ exit = Running /\ mainPc = "writeFile"
    /\ \E ok \in BOOLEAN :
         /\ failed' = IF ok THEN failed ELSE "write config"
         /\ descriptor' = ok
         /\ IF WriteFatal(ok)
              THEN /\ Fatalf("Error writing webhook config")
                   /\ UNCHANGED mainPc
              ELSE /\ mainPc' = "createServer"
                   /\ UNCHANGED <<exit, fatal>>
    /\ UNCHANGED <<coordPc, sigVars, srvVars, connVars, coordVars, certVars,
                   mode, hookInstalled, publishCalls, certSource, hsLog>>

\* main.go:163-168, shutdown.go:34-35  the server object is built and
\* ShutdownOnTerm registers the channel for os.Interrupt
MainNotifyInterrupt ==
    /\ exit = Running /\ mainPc = "createServer"
    /\ registered' = registered \cup {"interrupt"}
    /\ mainPc' = "notifyTerm"
    /\ UNCHANGED <<coordPc, exit, fatal, delivered, received, lostArmed,
                   lostListening, lateSignals, srvVars, connVars, coordVars,
                   certVars, cfgVars, failed, hsLog>>

\* shutdown.go:36  signal.Notify(c, term)
MainNotifyTerm ==
    /\ exit = Running /\ mainPc = "notifyTerm"
    /\ registered' = registered \cup {"terminate"}
    /\ mainPc' = "spawn"
    /\ UNCHANGED <<coordPc, exit, fatal, delivered, received, lostArmed,
                   lostListening, lateSignals, srvVars, connVars, coordVars,
                   certVars, cfgVars, failed, hsLog>>

\* shutdown.go:38,50-51  go func() {...}(); ShutdownOnTerm returns
MainSpawn ==
    /\ exit = Running /\ mainPc = "spawn"
    /\ coordPc' = "start"
    /\ mainPc' = "serve"
    /\ UNCHANGED <<exit, fatal, sigVars, srvVars, connVars, coordVars,
                   certVars, cfgVars, failed,
                   hsLog>>

\* mutant: the serve call's result is tested against nil, so the sentinel of
\* an orderly shutdown is fatal too
ServeIsFatal_NilOnly(err) == err # NoErr

\* main.go:171  the test on the serve call's result
ServeIsFatal(err) == err # ErrServerClosed

\* main.go:170-173  server.ListenAndServeTLS("", "") is entered: a server
\* already shut down returns ErrServerClosed, otherwise the listener is bound
\* (or the bind fails and the error is returned)
MainListenAndServeTLS ==
    /\ exit = Running /\ mainPc = "serve"
    /\ \E err \in (IF inShutdown THEN {ErrServerClosed} ELSE {NoErr, OtherErr}) :
         /\ failed' = IF err = OtherErr THEN "listen" ELSE failed
         /\ IF err = NoErr
              THEN /\ lnState' = "open"
                   /\ mainPc' = "accept"
                   /\ UNCHANGED <<exit, fatal>>
              ELSE IF ServeIsFatal(err)
                THEN /\ Fatalf("Error listening")
                     /\ UNCHANGED <<mainPc, lnState>>
                ELSE /\ mainPc' = "served"
                     /\ UNCHANGED <<exit, fatal, lnState>>
    /\ UNCHANGED <<coordPc, sigVars, inShutdown, connVars, coordVars, certVars,
                   cfgVars, hsLog>>

\* mutant: the serve call stays blocked after the server was shut down
ServeUnblocked_Never == FALSE

\* main.go:171  what ends the blocking serve call: the server is shutting
\* down (server.Shutdown or server.Close has closed the listener)
ServeUnblocked == inShutdown

\* main.go:171-174  the accept loop ends once the server is shutting down:
\* the serve call returns ErrServerClosed
MainServeReturns ==
    /\ exit = Running /\ mainPc = "accept"
    /\ ServeUnblocked
    /\ IF ServeIsFatal(ErrServerClosed)
         THEN /\ Fatalf("Error listening")
              /\ UNCHANGED mainPc
         ELSE /\ mainPc' = "served"
              /\ UNCHANGED <<exit, fatal>>
    /\ UNCHANGED <<coordPc, sigVars, srvVars, connVars, coordVars, certVars,
                   cfgVars, failed,
                   hsLog>>

\* main.go:134,174-175  main returns: the deferred certManager.Stop() runs
\* (in-cluster only)
MainDeferred ==
    /\ exit = Running /\ mainPc = "served"
    /\ stopCalls' = IF mode = "InCluster" THEN stopCalls + 1 ELSE stopCalls
    /\ mainPc' = "exiting"
    /\ UNCHANGED <<coordPc, exit, fatal, sigVars, srvVars, connVars, coordVars,
                   certCur, certIssued, startCalls, cfgVars, failed,
                   hsLog>>

\* main.go:175  main has returned: the process exits with status 0, whatever
\* the other goroutines are doing
MainExit ==
    /\ exit = Running /\ mainPc = "exiting"
    /\ exit' = Exit0
    /\ mainPc' = "done"
    /\ UNCHANGED <<coordPc, fatal, sigVars, srvVars, connVars, coordVars,
                   certVars, cfgVars, failed,
                   hsLog>>

\* ---------------------------------------------------- signal delivery

\* main.go:170-171  the server is Listening: main is inside the serve call
\* with the listener open and no shutdown begun
Listening == mainPc = "accept" /\ lnState = "open" /\ ~inShutdown

\* shutdown.go:38-50  ShutdownOnTerm has returned (the goroutine exists)
AfterShutdownOnTerm == coordPc # "none"

\* mutant: the goroutine waits for signals again while it drains
ChanTakes_Rearmed(pc) == pc \in {"wait", "inShutdown", "waitDone"}

\* mutant: the goroutine loops and takes a signal whenever it is not busy
ChanTakes_Loop(pc) == pc \in {"wait", "done"}

\* shutdown.go:34,39  c is made without a buffer and signal.Notify never
\* blocks: a signal is handed over only to a goroutine parked at <-c
ChanTakes(pc) == pc = "wait"

\* a signal not (yet) passed to signal.Notify keeps its default disposition
SignalKills(s) ==
    /\ exit = Running /\ delivered < MaxSignals
    /\ s \notin registered
    /\ delivered' = delivered + 1
    /\ exit' = Killed
    /\ UNCHANGED <<mainPc, coordPc, fatal, registered, received, lostArmed,
                   lostListening, lateSignals, srvVars, connVars, coordVars, certVars,
                   cfgVars, failed,
                   hsLog>>

\* shutdown.go:39-40  <-c receives the signal
SignalReceived(s) ==
    /\ exit = Running /\ delivered < MaxSignals
    /\ s \in registered
    /\ ChanTakes(coordPc)
    /\ delivered' = delivered + 1
    /\ received' = s
    /\ coordPc' = "received"
    /\ hungAtSignal' = hung
    /\ UNCHANGED <<mainPc, exit, fatal, registered, lostArmed, lostListening,
                   lateSignals, srvVars, connVars, shutdownCalls, shutdownErr, closeCalls,
                   closeErr, ctxTimeout, elapsed, certVars, cfgVars, failed,
                   hsLog>>

\* shutdown.go:34-36  nobody is receiving on c: the signal is discarded
SignalDropped(s) ==
    /\ exit = Running /\ delivered < MaxSignals
    /\ s \in registered
    /\ ~ChanTakes(coordPc)
    /\ delivered' = delivered + 1
    /\ lostArmed' = (lostArmed \/ (AfterShutdownOnTerm /\ received = "none"))
    /\ lostListening' = (lostListening \/ (Listening /\ received = "none"))
    /\ lateSignals' = IF received = "none" THEN lateSignals
                       ELSE lateSignals + 1
    /\ UNCHANGED <<procVars, registered, received, srvVars, connVars,
                   coordVars, certVars, cfgVars, failed,
                   hsLog>>

\* ------------------------------------- the goroutine of ShutdownOnTerm

\* shutdown.go:38-39  the goroutine is scheduled and blocks on <-c
CoordWait ==
    /\ exit = Running /\ coordPc = "start"
    /\ coordPc' = "wait"
    /\ UNCHANGED <<mainPc, exit, fatal, sigVars, srvVars, connVars, coordVars,
                   certVars, cfgVars, failed,
                   hsLog>>

\* main.go:168  the timeout main passes to ShutdownOnTerm
Timeout == DrainDeadline

\* shutdown.go:41-43  context.WithTimeout and the call of server.Shutdown:
\* the server is marked shutting down and its listener is closed
CoordShutdown ==
    /\ exit = Running /\ coordPc = "received"
    /\ ctxTimeout' = Timeout
    /\ elapsed' = 0
    /\ shutdownCalls' = shutdownCalls + 1
    /\ inShutdown' = TRUE
    /\ lnState' = IF lnState = "open" THEN "closed" ELSE lnState
    /\ coordPc' = "inShutdown"
    /\ UNCHANGED <<mainPc, exit, fatal, sigVars, connVars, hungAtSignal,
                   shutdownErr, closeCalls, closeErr, certVars, cfgVars, failed,
                   hsLog>>

\* What server.Shutdown(ctx) may return: the listener's close error (nil
\* when clean) once no connection is open, ctx.Err() once the deadline has
\* passed, and the sentinel the call site tests for.
ShutdownResults ==
    (IF active + hung = 0 THEN {NoErr, OtherErr} ELSE {})
    \cup (IF elapsed >= ctxTimeout THEN {DeadlineExceeded} ELSE {})
    \cup {ErrServerClosed}

\* mutant: every result of Shutdown, the sentinel included, leads to the
\* forced close
NeedsForcedClose_Always(err) == TRUE

\* shutdown.go:43  err != http.ErrServerClosed
NeedsForcedClose(err) == err # ErrServerClosed

\* shutdown.go:43  server.Shutdown returns and its result is tested
CoordShutdownReturns ==
    /\ exit = Running /\ coordPc = "inShutdown"
    /\ \E err \in ShutdownResults :
         /\ shutdownErr' = err
         /\ coordPc' = IF NeedsForcedClose(err) THEN "waitDone" ELSE "done"
    /\ UNCHANGED <<mainPc, exit, fatal, sigVars, srvVars, connVars,
                   hungAtSignal, shutdownCalls, closeCalls, closeErr,
                   ctxTimeout, elapsed, certVars, cfgVars, failed,
                   hsLog>>

\* shutdown.go:44-45  <-ctx.Done() returns when the timeout has run out; the
\* error is logged
CoordCtxDone ==
    /\ exit = Running /\ coordPc = "waitDone"
    /\ elapsed >= ctxTimeout
    /\ coordPc' = "close"
    /\ UNCHANGED <<mainPc, exit, fatal, sigVars, srvVars, connVars, coordVars,
                   certVars, cfgVars, failed,
                   hsLog>>

\* mutant: the error of server.Close() is ignored
CloseIsFatal_Never(err) == FALSE

\* shutdown.go:46  the test on the result of server.Close()
CloseIsFatal(err) == err # NoErr

\* shutdown.go:46-49  server.Close() closes the listener and every
\* connection; an error from it is fatal, otherwise the goroutine ends
CoordClose ==
    /\ exit = Running /\ coordPc = "close"
    /\ closeCalls' = closeCalls + 1
    /\ inShutdown' = TRUE
    /\ lnState' = IF lnState = "open" THEN "closed" ELSE lnState
    /\ active' = 0
    /\ hung' = 0
    /\ \E err \in {NoErr, OtherErr} :
         /\ closeErr' = err
         /\ IF CloseIsFatal(err)
              THEN /\ Fatalf("Error closing server")
                   /\ UNCHANGED coordPc
              ELSE /\ coordPc' = "done"
                   /\ UNCHANGED <<exit, fatal>>
    /\ UNCHANGED <<mainPc, sigVars, hungAtSignal, shutdownCalls, shutdownErr,
                   ctxTimeout, elapsed, certVars, cfgVars, failed,
                   hsLog>>

\* shutdown.go:41  time passes on the shutdown context's timer
Tick ==
    /\ exit = Running
    /\ coordPc \in {"inShutdown", "waitDone"}
    /\ elapsed < ctxTimeout
    /\ elapsed' = IF elapsed + TickStep > ctxTimeout THEN ctxTimeout
                   ELSE elapsed + TickStep
    /\ UNCHANGED <<procVars, sigVars, srvVars, connVars, hungAtSignal,
                   shutdownCalls, shutdownErr, closeCalls, closeErr,
                   ctxTimeout, certVars, cfgVars, failed,
                   hsLog>>

\* ------------------------------------------------ certificate sources

\* cert.NewServerCertificateManager's renewal activity: a certificate is
\* issued (the signing request is approved, or the certificate is rotated)
CertIssue ==
    /\ exit = Running /\ mode = "InCluster"
    /\ startCalls > 0 /\ stopCalls = 0
    /\ certIssued < MaxCert
    /\ certIssued' = certIssued + 1
    /\ certCur' = ClusterCert(certIssued + 1)
    /\ UNCHANGED <<procVars, sigVars, srvVars, connVars, coordVars,
                   startCalls, stopCalls, cfgVars, failed,
                   hsLog>>

\* the current certificate runs out before its replacement is there:
\* Current() is nil again
CertExpire ==
    /\ exit = Running /\ mode = "InCluster"
    /\ certCur # Nil
    /\ certCur' = Nil
    /\ UNCHANGED <<procVars, sigVars, srvVars, connVars, coordVars,
                   certIssued, startCalls, stopCalls, cfgVars, failed,
                   hsLog>>

\* mutant: the nil check is missing, a nil certificate is returned as success
GetCertificate_NoNilCheck(cur) == [cert |-> cur, err |-> NoErr]

\* mutant: the hook keeps a copy of the first certificate instead of reading
\* the source at each handshake
GetCertificate_Stale(cur) ==
    IF cur = Nil THEN [cert |-> Nil, err |-> ErrNoCert]
                 ELSE [cert |-> ClusterCert(1), err |-> NoErr]

\* main.go:136-142  the in-cluster hook: cur is certManager.Current()
GetCertificate(cur) ==
    IF cur = Nil THEN [cert |-> Nil, err |-> ErrNoCert]
                 ELSE [cert |-> cur, err |-> NoErr]

\* main.go:145  generator.GetCertificateFn(): the self-signed certificate
SelfSignedGetCertificate == [cert |-> SelfSignedCert, err |-> NoErr]

\* main.go:104-146,166  tlsConfig.GetCertificate as installed for the mode
Hook(m, cur) ==
    IF m = "InCluster" THEN GetCertificate(cur) ELSE SelfSignedGetCertificate

\* ------------------------------------------------------- connections

\* main.go:166,171  a client connects to the listening server and the TLS
\* layer calls the hook; a failed handshake ends that connection, a
\* successful one leaves a connection with a request in flight
Handshake ==
    /\ exit = Running /\ Listening /\ hookInstalled
    /\ active + hung < MaxConns
    /\ LET r == Hook(mode, certCur) IN
         /\ hsPrev' = hsLast
         /\ hsLast' = [cur |-> certCur, res |-> r]
         /\ IF r.err = NoErr
              THEN \E hangs \in BOOLEAN :
                     /\ active' = IF hangs THEN active ELSE active + 1
                     /\ hung' = IF hangs THEN hung + 1 ELSE hung
              ELSE UNCHANGED <<active, hung>>
    /\ UNCHANGED <<procVars, sigVars, srvVars, coordVars, certVars, cfgVars,
                   failed>>

\* main.go:165  an in-flight request finishes and its connection closes
ConnFinish ==
    /\ exit = Running
    /\ active > 0
    /\ active' = active - 1
    /\ UNCHANGED <<procVars, sigVars, srvVars, hung, coordVars, certVars,
                   cfgVars, failed,
                   hsLog>>

\* ------------------------------------------------------ specification

Main ==
    \/ MainBuildConfig
    \/ MainClientset
    \/ MainNewCertManager
    \/ MainCertStart
    \/ MainSelfSigned
    \/ MainGenerateConfig
    \/ MainWriteFile
    \/ MainNotifyInterrupt
    \/ MainNotifyTerm
    \/ MainSpawn
    \/ MainListenAndServeTLS
    \/ MainServeReturns
    \/ MainDeferred
    \/ MainExit

Coordinator ==
    \/ CoordWait
    \/ CoordShutdown
    \/ CoordShutdownReturns
    \/ CoordCtxDone
    \/ CoordClose

Environment ==
    \/ \E s \in Signals : SignalKills(s)
    \/ \E s \in Signals : SignalReceived(s)
    \/ \E s \in Signals : SignalDropped(s)
    \/ Tick
    \/ CertIssue
    \/ CertExpire
    \/ Handshake
    \/ ConnFinish

Next == Main \/ Coordinator \/ Environment

Spec == Init /\ [][Next]_vars

\* Scheduling: a goroutine that can take a step eventually takes one, and
\* time does not stop while the shutdown context's timer is running.  Nothing
\* is assumed of signals, clients and the certificate source.
FairSpec ==
    /\ Spec
    /\ WF_vars(Main)
    /\ WF_vars(Coordinator)
    /\ WF_vars(Tick)

\* ------------------------------------------------------------- claims

\* C1: every termination signal delivered while the server is Listening makes
\* the goroutine invoke server.Shutdown, exactly once over the process
\* lifetime and with the deadline main configured (DrainDeadline): no such
\* signal is discarded, Shutdown is never invoked twice, a goroutine past the
\* call has invoked it once, and the context's timeout is DrainDeadline.
C1_ShutdownOncePerListeningSignal ==
    /\ ~lostListening
    /\ shutdownCalls <= 1
    /\ (coordPc \in {"inShutdown", "waitDone", "close", "done"}
          => shutdownCalls = 1)
    /\ (shutdownCalls = 1 => ctxTimeout = DrainDeadline)

\* C2: after a clean graceful shutdown of a server that was listening
\* (server.Shutdown returned nil, every request finished) the forced close is
\* never invoked and the process, once it has exited, has exited with
\* status 0.
C2_CleanShutdownNoForcedClose ==
    (shutdownErr = NoErr /\ lnState # "none") =>
        /\ closeCalls = 0
        /\ exit \in {Running, Exit0}

\* the server has stopped: no connection is open any more (the drain has
\* finished, or the forced close has closed them)
ServerStopped == active + hung = 0

\* C3: once a signal was taken while the serve call was running, the serve
\* call has not returned and the process has not exited unless the server has
\* stopped; the process never exits while the goroutine is inside
\* server.Shutdown with connections in flight.
C3_ServeBlocksUntilStopped ==
    /\ (received # "none" /\ lnState # "none"
        /\ (mainPc \in {"served", "exiting", "done"} \/ exit # Running))
          => ServerStopped
    /\ exit # Running => ~(coordPc = "inShutdown" /\ active + hung > 0)

\* C4: when a signal was taken with a request in flight that never finishes
\* (and Shutdown did not return the sentinel), the process does not exit
\* before the forced close was invoked, after the deadline; it exits 0 when
\* the forced close succeeded and non-zero when it failed.
C4_HungRequestEndsInForcedClose ==
    (exit # Running /\ received # "none" /\ hungAtSignal > 0
     /\ shutdownErr # ErrServerClosed)
      => /\ closeCalls = 1
         /\ elapsed >= DrainDeadline
         /\ (closeErr = NoErr => exit = Exit0)
         /\ (closeErr # NoErr => exit = Exit255)

\* C5: when server.Shutdown returned anything but the sentinel, the forced
\* close is invoked exactly once (a process whose server was listening does
\* not end without it), never before the whole deadline has passed and never
\* while Shutdown is running.
C5_ForcedCloseOnceAfterDeadline ==
    /\ closeCalls <= 1
    /\ closeCalls = 1 => /\ elapsed >= DrainDeadline
                         /\ shutdownErr \notin {"pending", ErrServerClosed}
    /\ (exit # Running /\ lnState # "none"
        /\ shutdownErr \notin {"pending", ErrServerClosed})
          => closeCalls = 1

\* C6: when server.Shutdown returns the sentinel ErrServerClosed the goroutine
\* ends at once: it does not wait for the deadline, never invokes the forced
\* close and never ends the process with a fatal error.
C6_SentinelIsSuccess ==
    shutdownErr = ErrServerClosed =>
        /\ coordPc = "done"
        /\ closeCalls = 0
        /\ closeErr = "pending"
        /\ fatal = "none"
        /\ exit \in {Running, Exit0}

C6_Witness ==
    /\ shutdownErr = ErrServerClosed
    /\ elapsed < ctxTimeout
    /\ hung > 0
    /\ exit = Exit0

\* C7: no termination signal delivered after ShutdownOnTerm has returned is
\* lost: whatever the goroutine and main are doing at that moment, the first
\* such signal reaches the goroutine (and so leads to server.Shutdown).
C7_NoSignalLostAfterRegistration == ~lostArmed

C9_AbsentHandshakeFailsAlone ==
    [][(Handshake /\ mode = "InCluster" /\ certCur = Nil)
         => /\ hsLast'.res = [cert |-> Nil, err |-> ErrNoCert]
            /\ UNCHANGED <<procVars, sigVars, srvVars, connVars, coordVars,
                           certVars, cfgVars>>]_vars

C9_Witness ==
    /\ mode = "InCluster"
    /\ hsLast.cur = Nil /\ hsLast.res.err = ErrNoCert
    /\ hsPrev.res.err = NoErr
    /\ active + hung > 0
    /\ Listening /\ exit = Running

\* a recorded in-cluster handshake agrees with the source as it was then
AgreesWithSource(h) ==
    \/ h = NoHandshake
    \/ h.cur = Nil /\ h.res.err = ErrNoCert /\ h.res.cert = Nil
    \/ h.cur # Nil /\ h.res.err = NoErr /\ h.res.cert = h.cur

\* C10: in InCluster mode the outcome of every handshake is decided by the
\* source at that handshake alone: it failed if the source had no certificate
\* and succeeded with the source's certificate of that moment otherwise,
\* whatever earlier handshakes saw, with the one server started once.
C10_HandshakeFollowsSource ==
    mode = "InCluster" =>
        /\ AgreesWithSource(hsPrev)
        /\ AgreesWithSource(hsLast)
        /\ startCalls <= 1

C10_Witness ==
    /\ mode = "InCluster"
    /\ hsPrev.cur = Nil /\ hsPrev.res.err = ErrNoCert
    /\ hsLast.cur = ClusterCert(2) /\ hsLast.res = [cert |-> ClusterCert(2), err |-> NoErr]
    /\ certIssued = 2
    /\ startCalls = 1

\* C11: in OutOfCluster mode the webhook config is generated (once) and
\* written before the listener is opened; when generating or writing it
\* fails the process exits with a non-zero status and the listener is never
\* opened.
C11_DescriptorBeforeListener ==
    mode = "OutOfCluster" =>
        /\ lnState # "none" => (descriptor /\ publishCalls = 1)
        /\ failed \in {"generate config", "write config"}
             => (exit = Exit255 /\ lnState = "none" /\ ~descriptor)

C11_Witness ==
    /\ mode = "OutOfCluster"
    /\ descriptor /\ publishCalls = 1
    /\ Listening

C13_StopOnceOnEveryExit ==
    /\ stopCalls <= 1
    /\ (mode = "InCluster" /\ startCalls = 1 /\ exit \in {Exit0, Exit255})
          => stopCalls = 1
    /\ stopCalls = 1 => active + hung = 0

\* C14: a termination signal delivered after the goroutine has taken one has
\* no effect: it is counted and nothing else changes -- no second
\* server.Shutdown, no change to the shutdown context or its clock, no
\* earlier server.Close, no change to the process status.
C14_LaterSignalsHaveNoEffect ==
    [][(received # "none" /\ delivered' # delivered)
         => /\ lateSignals' = lateSignals + 1
            /\ UNCHANGED <<procVars, registered, received, srvVars, connVars,
                           coordVars, certVars, cfgVars, hsLog, failed>>]_vars

C14_Witness ==
    /\ lateSignals >= 1
    /\ shutdownCalls = 1
    /\ coordPc = "close" /\ closeCalls = 0
    /\ elapsed = DrainDeadline
    /\ exit = Running

\* C15: exactly one certificate source is chosen by the mode, which never
\* changes: in InCluster mode only the cluster-managed source is constructed
\* and started and GenerateConfig is never called; in OutOfCluster mode only
\* the self-signed source is constructed, the certificate manager is never
\* started, and GenerateConfig is called exactly once; in both modes the
\* hook of the chosen source is installed before the server has a listener.
C15_OneSourcePerMode ==
    /\ [](mode = "InCluster" =>
            /\ certSource \in {"none", "cluster"}
            /\ publishCalls = 0 /\ ~descriptor
            /\ startCalls <= 1
            /\ (startCalls = 1 => certSource = "cluster")
            /\ (lnState # "none" => startCalls = 1))
    /\ [](mode = "OutOfCluster" =>
            /\ certSource \in {"none", "self-signed"}
            /\ startCalls = 0
            /\ publishCalls <= 1
            /\ (mainPc \notin {"buildConfig", "clientset", "certSource",
                               "genConfig"} => publishCalls = 1))
    /\ [](lnState # "none" => (hookInstalled /\ certSource # "none"))
    /\ [][mode' = mode]_vars

C15_Witness ==
    /\ mode = "OutOfCluster"
    /\ certSource = "self-signed" /\ publishCalls = 1 /\ startCalls = 0
    /\ Listening
    /\ hsLast.res = [cert |-> SelfSignedCert, err |-> NoErr]

\* shutdown.go:38-50  where the goroutine is, in the terms of the shutdown
\* state machine
CoordState ==
    IF fatal = "Error closing server" THEN "FatalCloseFailure"
    ELSE IF coordPc \in {"none", "start", "wait"} THEN "Listening"
    ELSE IF coordPc = "received" THEN "SignalReceived"
    ELSE IF coordPc = "inShutdown" THEN "Draining"
    ELSE IF coordPc \in {"waitDone", "close"} THEN "ForceClosing"
    ELSE IF closeCalls = 0 THEN "GracefullyClosed"
    ELSE "ForceClosed"

CoordTransitions ==
    { <<"Listening", "SignalReceived">>,
      <<"SignalReceived", "Draining">>,
      <<"Draining", "GracefullyClosed">>,
      <<"Draining", "ForceClosing">>,
      <<"ForceClosing", "ForceClosed">>,
      <<"ForceClosing", "FatalCloseFailure">> }

CoordTerminal == {"GracefullyClosed", "ForceClosed", "FatalCloseFailure"}

\* C16: the goroutine changes state only along Listening -> SignalReceived ->
\* Draining -> {GracefullyClosed | ForceClosing -> {ForceClosed |
\* FatalCloseFailure}}: it never goes back, it is in or past ForceClosing only
\* after server.Shutdown was invoked, and from a terminal state it changes
\* state no more and invokes neither server.Shutdown nor server.Close.
C16_CoordinatorStateMachine ==
    /\ [][(CoordState' = CoordState)
            \/ (<<CoordState, CoordState'>> \in CoordTransitions)]_vars
    /\ [][(CoordState \in CoordTerminal)
            => (CoordState' = CoordState
                /\ UNCHANGED <<shutdownCalls, closeCalls>>)]_vars
    /\ [](CoordState \in {"ForceClosing", "ForceClosed", "FatalCloseFailure"}
            => shutdownCalls = 1)

C16_Witness ==
    /\ CoordState = "ForceClosed"
    /\ shutdownCalls = 1 /\ closeCalls = 1
    /\ lateSignals >= 1
    /\ exit = Running

\* C17: once the goroutine has taken a termination signal the process
\* eventually ends, whatever the open connections do (a request that never
\* finishes included), given fair scheduling of main, the goroutine and the
\* clock.
C17_SignalLeadsToExit == (received # "none") ~> (exit # Running)

C17_Witness ==
    /\ received # "none"
    /\ hungAtSignal > 0 /\ hung > 0
    /\ lnState = "closed"
    /\ exit = Exit0

\* C18 as stated: when main enters the serve call after the goroutine has
\* consumed a termination signal, the call returns the sentinel without
\* opening a listener and without the fatal listen-error path.
C18_ConsumedBeforeServe ==
    [][(MainListenAndServeTLS /\ received # "none")
         => (mainPc' = "served" /\ lnState' = "none" /\ fatal' = "none")]_vars

\* C18 amended: when main enters the serve call after the goroutine has
\* invoked server.Shutdown, the call returns the sentinel and main goes on to
\* return; no listener is ever opened, no connection is ever accepted, the
\* fatal listen-error path is never taken, and the process ends with status 0
\* unless the goroutine's forced close fails first.
C18_ShutdownBeforeServe ==
    /\ [][(MainListenAndServeTLS /\ shutdownCalls >= 1)
            => (mainPc' = "served" /\ UNCHANGED <<exit, fatal, lnState>>)]_vars
    /\ [][(shutdownCalls >= 1 /\ lnState = "none")
            => (lnState' = "none" /\ active' + hung' = 0)]_vars
    /\ []((shutdownCalls >= 1 /\ lnState = "none")
            => /\ fatal # "Error listening"
               /\ hsLast = NoHandshake
               /\ exit \in {Running, Exit0}
                    \/ (exit = Exit255 /\ fatal = "Error closing server"))

C18_Witness ==
    /\ received # "none" /\ shutdownCalls = 1
    /\ lnState = "none"
    /\ mainPc \notin {"serve", "spawn", "notifyTerm"}
    /\ exit = Exit0

=============================================================================
